---- MODULE Spec2Model ----
(***************************************************************************)
(* The paged witness request pipeline of eth/peer.go (ethPeer.             *)
(* RequestWitnesses and its helpers) together with the parts of the        *)
(* witness codec it depends on.                                            *)
(*                                                                         *)
(* One record of `batch` holds the state that one call of RequestWitnesses *)
(* creates: the maps, the semaphore, the WaitGroup, the fan-in channel,    *)
(* the sub-requests, and the position of every goroutine of the call (the  *)
(* caller, the scheduling pass that holds buildRequestMu, the passes that  *)
(* wait for it, the closer, the forwarders and the adapter).               *)
(***************************************************************************)
EXTENDS Integers, Sequences, FiniteSets, TLC

(* ------------------------------ bounds -------------------------------- *)

\* calls of RequestWitnesses on the one peer that may be active together
MaxCalls == 2
\* hashes in one call of the general specification
MaxHashes == 2
\* state bytes of the fixture witness the peer serves (general specification)
WitnessLen == 2
\* pages of all the witnesses of one call (general specification)
MaxBatchPages == 3
\* replies other than the page asked for that the peer may give in one run
MaxFaults == 3
\* replies other than the page asked for in the specification with a caller
\* that cancels
CancelFaults == 2
\* state bytes of the witness of the many-page specification: one page a byte
WideLen == 5
\* hashes of the first and of the second call of the two-call specification
TwoFirst == 1
TwoSecond == 5
\* largest page index and page total a forging peer may announce
ForgedPages == 2
\* replies other than the page asked for in the forging-peer specification
ForgedFaults == 2
\* replies other than the page asked for in the empty-payload specification
EmptyFaults == 2

\* faults (failed closes of sub-requests and replies of unexpected shape) in
\* the runs with a caller that closes its request
CloseFaults == 1

\* faults (foreign pages and replies of unexpected shape) in the runs with a
\* peer that answers for a witness nobody asked for
ForeignFaults == 2

\* faults (refused submissions and replies of unexpected shape) in the runs
\* with a peer that refuses sub-requests
RefuseFaults == 2
\* a compression threshold that some of the encoded witnesses exceed
MidThreshold == 6
\* calls of EncodeCompressed in one run of the metrics specification
MaxRounds == 3
\* a compression level that gzip.NewWriterLevel refuses
InvalidLevel == 10
\* a first byte that is neither marker
BadMarker == 2

(* -------------------------- program constants -------------------------- *)

DefaultPagesRequestPerWitness == 1
DefaultConcurrentRequestsPerPeer == 5
DefaultConcurrentResponsesHandled == 10
DefaultMaxPagesRequestRetries == 2

\* first byte EncodeCompressed writes on its uncompressed path
UncompressedMarker == 0
\* RLP prefix of a short list: 0xc0 + payload length
RlpListBase == 192
\* RLP: a byte below 0x80 is its own encoding
RlpSingleByteLimit == 128
\* RLP: 0x80 is the encoding of the empty string
RlpEmptyString == 128

\* compressionThreshold = 1 * 1024 * 1024
compressionThreshold == 1048576
\* first byte EncodeCompressed writes on its compressed path
CompressedMarker == 1
\* gzip.BestSpeed and gzip.BestCompression, and the level the tests set
GzipBestSpeed == 1
GzipBestCompression == 9
TestCompressionLevel == 6
\* first byte of a gzip stream
GzipMagic == 31

Batches == 1 .. MaxCalls

(* ------------------------------- state --------------------------------- *)

VARIABLES
  hasWitPeer,   \* p.witPeer != nil
  peer,         \* what the peer serves: framed (EncodeCompressed output, or
                \* plain RLP), witLen (state bytes of a witness), pageSize
  limit,        \* the bounds of this run: hashes[b] and pages of the hash list
                \* of call b, and faults
  faults,       \* replies other than the page asked for given so far
  fatal,        \* "" or the runtime error that ended the process
  batch,        \* batch[b]: the state of call b of RequestWitnesses
  codec         \* a witness on its way through EncodeCompressed and
                \* DecodeCompressed under the global compression configuration

vars == <<hasWitPeer, peer, limit, faults, fatal, batch, codec>>

(* ------------------------------ helpers -------------------------------- *)

Min(a, b) == IF a < b THEN a ELSE b

RECURSIVE Concat(_)
\* the concatenation of the Data of a sequence of pages
Concat(pages) ==
  IF pages = <<>> THEN <<>> ELSE Head(pages).Data \o Concat(Tail(pages))

\* f[k], or the zero value `zero` when the Go map f has no key k
Get(f, k, zero) == IF k \in DOMAIN f THEN f[k] ELSE zero

\* f with key k set to v (a Go map assignment)
MapPut(f, k, v) == [x \in (DOMAIN f) \cup {k} |-> IF x = k THEN v ELSE f[x]]

(* ------------------------- witness codec (RLP) ------------------------- *)

\* the witness the peer holds for hash h: its state bytes
Witness(h, n) == [i \in 1 .. n |-> 10 * h + i]

\* rlp.Encode of a witness: a list prefix carrying the payload length, then
\* the payload
RlpEncode(w) == <<RlpListBase + Len(w)>> \o w

(* ------------------------------- gzip ---------------------------------- *)

\* the length of the longest run b, b+1, b+2, ... that bs starts with, at
\* most cap long
RunLength(bs, cap) ==
  CHOOSE n \in 1 .. Min(cap, Len(bs)) :
    /\ \A i \in 1 .. n : bs[i] = bs[1] + (i - 1)
    /\ (n = Min(cap, Len(bs)) \/ bs[n + 1] # bs[1] + n)

RECURSIVE RunEncode(_, _)
\* bs as pairs <<length, first byte>> of its runs
RunEncode(bs, cap) ==
  IF bs = <<>> THEN <<>>
  ELSE LET n == RunLength(bs, cap)
       IN <<n, bs[1]>> \o RunEncode(SubSeq(bs, n + 1, Len(bs)), cap)

RECURSIVE RunDecode(_)
\* the bytes that a sequence of pairs <<length, first byte>> stands for
RunDecode(z) ==
  IF Len(z) < 2 THEN <<>>
  ELSE [i \in 1 .. z[1] |-> z[2] + (i - 1)] \o RunDecode(Tail(Tail(z)))

\* gzip.NewWriterLevel(level), Write, Close: a lossless stream whose length
\* depends on the data and on the level (here a run coder that looks at most
\* `level` bytes ahead)
Gzip(level, bs) == <<GzipMagic>> \o RunEncode(bs, level)

\* gzip.NewReader and io.Copy: the data of a well-formed stream, or an error
Gunzip(z) ==
  IF /\ Len(z) >= 1
     /\ z[1] = GzipMagic
     /\ (Len(z) - 1) % 2 = 0
     /\ \A i \in 2 .. Len(z) : i % 2 = 0 => z[i] >= 1
  THEN [ok |-> TRUE, data |-> RunDecode(Tail(z))]
  ELSE [ok |-> FALSE, data |-> <<>>]

(* ------------------- witness codec (EncodeCompressed) ------------------ *)

\* DefaultCompressionConfig()
DefaultCompressionConfig ==
  [Enabled |-> TRUE, Threshold |-> compressionThreshold,
   CompressionLevel |-> GzipBestSpeed, UseDeduplication |-> TRUE]

\* a Witness: context, Headers and State, the set of state entries; an entry
\* is written as its RLP item (a one-byte string as the byte, the empty
\* string as 0x80)
NoWitness == [context |-> 0, Headers |-> <<>>, State |-> {}]

\* Witness.Optimize: the state entries that are the empty string are deleted
Optimize(w) == [w EXCEPT !.State = @ \ {RlpEmptyString}]

RECURSIVE Orders(_)
\* the orders in which a range over a Go map may yield the keys S
Orders(S) ==
  IF S = {} THEN {<<>>}
  ELSE UNION {{<<x>> \o rest : rest \in Orders(S \ {x})} : x \in S}

\* toExtWitness: Context, Headers, and State in the order of the range over
\* w.State
toExtWitness(w) == {<<w.context>> \o w.Headers \o st : st \in Orders(w.State)}

\* the fields of extWitness before State: Context and one header
ExtFields == 2

\* fromExtWitness
fromExtWitness(ext) ==
  [context |-> ext[1],
   Headers |-> SubSeq(ext, 2, ExtFields),
   State |-> {ext[i] : i \in (ExtFields + 1) .. Len(ext)}]

\* an EncodeRLP that never optimizes the witness
EncodeRLPAsIs(cfg, w) == {[w |-> w, rlp |-> RlpEncode(ext)] : ext \in toExtWitness(w)}

\* Witness.EncodeRLP under configuration cfg: the witness as the call leaves
\* it and the bytes written, for every order of the state entries
EncodeRLP(cfg, w) ==
  LET w1 == IF cfg.UseDeduplication THEN Optimize(w) ELSE w
  IN {[w |-> w1, rlp |-> RlpEncode(ext)] : ext \in toExtWitness(w1)}

\* an EncodeCompressed that compresses data whose size is the threshold
EncodeFrameAtThreshold(cfg, rlpData) ==
  LET compressedData == Gzip(cfg.CompressionLevel, rlpData)
  IN IF /\ cfg.Enabled
        /\ Len(rlpData) >= cfg.Threshold
        /\ Len(compressedData) < Len(rlpData)
     THEN <<CompressedMarker>> \o compressedData
     ELSE <<UncompressedMarker>> \o rlpData

\* Witness.EncodeCompressed after EncodeRLP: the marker byte, then the gzip
\* stream when compression is enabled, the RLP is above the threshold and
\* the stream is smaller than the RLP, else the RLP
EncodeFrame(cfg, rlpData) ==
  LET compressedData == Gzip(cfg.CompressionLevel, rlpData)
  IN IF /\ cfg.Enabled
        /\ Len(rlpData) > cfg.Threshold
        /\ Len(compressedData) < Len(rlpData)
     THEN <<CompressedMarker>> \o compressedData
     ELSE <<UncompressedMarker>> \o rlpData

\* Witness.EncodeCompressed of the peer's witness under the default
\* configuration
EncodeCompressed(w) == EncodeFrame(DefaultCompressionConfig, RlpEncode(w))

\* rlp.DecodeBytes into a Witness: the input must be exactly one list
RlpDecodeBytes(bs) ==
  IF /\ Len(bs) >= 1
     /\ bs[1] = RlpListBase + (Len(bs) - 1)
     /\ \A i \in 2 .. Len(bs) :
          bs[i] < RlpSingleByteLimit \/ bs[i] = RlpEmptyString
  THEN [ok |-> TRUE, wit |-> Tail(bs)]
  ELSE [ok |-> FALSE, wit |-> <<>>]

\* the failure of a decoder: the receiving witness is left as it was
DecodeError == [ok |-> FALSE, wit |-> NoWitness]

\* a DecodeCompressed that reads every input as uncompressed
DecodeCompressedPlain(data) ==
  IF Len(data) = 0 THEN DecodeError
  ELSE LET r == RlpDecodeBytes(Tail(data))
       IN IF r.ok /\ Len(r.wit) >= ExtFields
          THEN [ok |-> TRUE, wit |-> fromExtWitness(r.wit)]
          ELSE DecodeError

\* Witness.DecodeCompressed: empty data is an error; a first byte 0x01 means
\* a gzip stream follows, any other first byte that the RLP follows
DecodeCompressed(data) ==
  IF Len(data) = 0 THEN DecodeError
  ELSE LET compressed == data[1] = CompressedMarker
           witnessData == Tail(data)
           z == Gunzip(witnessData)
       IN IF compressed /\ ~z.ok THEN DecodeError
          ELSE LET rlpData == IF compressed THEN z.data ELSE witnessData
                   r == RlpDecodeBytes(rlpData)
               IN IF r.ok /\ Len(r.wit) >= ExtFields
                  THEN [ok |-> TRUE, wit |-> fromExtWitness(r.wit)]
                  ELSE DecodeError

\* gzip.NewWriterLevel returns an error for a level outside
\* HuffmanOnly (-2) .. BestCompression (9)
GzipLevelError(level) == level < -2 \/ level > GzipBestCompression

\* the compression metrics after resetMetrics
NoMetrics ==
  [compressionCount |-> 0, uncompressedCount |-> 0, decompressionCount |-> 0,
   totalOriginalSize |-> 0, totalCompressedSize |-> 0, spaceSavedBytes |-> 0]

\* EncodeCompressed returns the error of gzip.NewWriterLevel
EncodeFails(cfg, rlpData) ==
  /\ cfg.Enabled
  /\ Len(rlpData) > cfg.Threshold
  /\ GzipLevelError(cfg.CompressionLevel)

\* the metrics after an EncodeCompressed that found the RLP rlpData and wrote
\* out (nothing when it returned the error of gzip.NewWriterLevel)
EncodeMetrics(m, cfg, rlpData, out) ==
  LET originalSize == Len(rlpData)
      m1 == [m EXCEPT !.totalOriginalSize = @ + originalSize]
  IN IF EncodeFails(cfg, rlpData) THEN m1
     ELSE IF out[1] = CompressedMarker
     THEN [m1 EXCEPT !.compressionCount = @ + 1,
                     !.totalCompressedSize = @ + (Len(out) - 1),
                     !.spaceSavedBytes = @ + (originalSize - (Len(out) - 1))]
     ELSE [m1 EXCEPT !.uncompressedCount = @ + 1,
                     !.totalCompressedSize = @ + originalSize]

\* a DecodeCompressed that counts every call
DecodeMetricsEveryCall(m, data) == [m EXCEPT !.decompressionCount = @ + 1]

\* the metrics after DecodeCompressed(data): decompressionCount is
\* incremented once the gzip stream has been read
DecodeMetrics(m, data) ==
  IF Len(data) > 0 /\ data[1] = CompressedMarker /\ Gunzip(Tail(data)).ok
  THEN [m EXCEPT !.decompressionCount = @ + 1]
  ELSE m

\* a DecodeCompressed that clears the receiving witness before it decodes
DecodeCompressedIntoCleared(recv, data) == DecodeCompressed(data).wit

\* the receiving witness after recv.DecodeCompressed(data): fromExtWitness
\* fills it once the data has been decoded, an error returns before that
DecodeCompressedInto(recv, data) ==
  IF DecodeCompressed(data).ok THEN DecodeCompressed(data).wit ELSE recv

\* no witness is being encoded
IdleCodec ==
  [pc |-> "off", cfg |-> DefaultCompressionConfig, w0 |-> NoWitness,
   w |-> NoWitness, rlp |-> <<>>, out |-> <<>>, data |-> <<>>,
   recv |-> NoWitness, dec |-> DecodeError, round |-> 0, m |-> NoMetrics]

(* ------------------------------ the peer ------------------------------- *)

\* the bytes the peer serves for hash h
Blob(h) ==
  IF peer.framed THEN EncodeCompressed(Witness(h, peer.witLen))
  ELSE RlpEncode(Witness(h, peer.witLen))

\* ceil(len / pageSize)
TotalPages(h) == (Len(Blob(h)) + peer.pageSize - 1) \div peer.pageSize

\* the slice of the blob that page p carries
PageData(h, p) ==
  SubSeq(Blob(h), p * peer.pageSize + 1,
         Min((p + 1) * peer.pageSize, Len(Blob(h))))

\* the reply of a well-behaved peer to the page request {h, p}
PageReply(h, p) ==
  [ok |-> TRUE,
   pages |-> << [Hash |-> h, Page |-> p, TotalPages |-> TotalPages(h),
                 Data |-> PageData(h, p)] >>]

\* a reply whose Res is not a *wit.WitnessPacketRLPPacket
BadShapeReply == [ok |-> FALSE, pages |-> <<>>]

\* a nil *eth.Request, and the eth.Request shim that call b creates and
\* returns
NoRequest == 0
Shim(b) == b

(* ---------------------------- initial state ---------------------------- *)

NoRetry == [FailCount |-> 0, ShouldRetryAgain |-> FALSE]

IdleBuilder ==
  [bpc |-> "none", bhi |-> 0, bpage |-> 0, bend |-> 0,
   bhtodo |-> {}, bptodo |-> {}, bh |-> 0, bp |-> 0, brc |-> NoRetry]

NewBatch ==
  [pc |-> "idle",
   hashes |-> <<>>,
   witReqResCh |-> <<>>,
   chClosed |-> FALSE,
   witReqSem |-> 0,
   reqs |-> <<>>,
   witReqs |-> 0,
   wg |-> 0,
   wgZero |-> FALSE,
   witTotalPages |-> <<>>,
   witTotalRequest |-> <<>>,
   failedRequests |-> <<>>,
   waiting |-> 0,
   bld |-> IdleBuilder,
   snap |-> 0,
   cancel |-> FALSE,
   closeRet |-> "none",
   apc |-> "off",
   receivedWitPages |-> <<>>,
   reconstructedWitness |-> <<>>,
   lastWitRes |-> 0,
   ret |-> [req |-> NoRequest, err |-> "none"],
   ethRes |-> [Req |-> NoRequest, Res |-> <<>>],
   sink |-> <<>>]

InitCommon ==
  /\ hasWitPeer \in BOOLEAN
  /\ faults = 0
  /\ fatal = ""
  /\ batch = [b \in Batches |-> NewBatch]
  /\ codec = IdleCodec

\* the peer's ways of paging a witness of witLen state bytes that give at
\* most `pages` pages
Peers(witLen, pages) ==
  {c \in [framed : BOOLEAN, witLen : {witLen}, pageSize : 1 .. (witLen + 2)] :
     LET len == c.witLen + 1 + (IF c.framed THEN 1 ELSE 0)
     IN /\ c.pageSize <= len
        /\ (len + c.pageSize - 1) \div c.pageSize <= pages}

Init ==
  /\ InitCommon
  /\ peer \in Peers(WitnessLen, MaxBatchPages)
  /\ limit = [hashes |-> [b \in Batches |-> MaxHashes], pages |-> MaxBatchPages,
              faults |-> MaxFaults]

(* ----------------------------- WaitGroup -------------------------------- *)

\* witReqsWg.Add(1)
WgAdd(s) == [s EXCEPT !.wg = @ + 1]

\* witReqsWg.Done(): a counter that reaches zero releases the closer's Wait
WgDone(s) == [s EXCEPT !.wg = @ - 1, !.wgZero = @ \/ (s.wg = 1)]

(* ------------------------------ caller --------------------------------- *)

\* the nil check left out: the call goes on whatever witPeer is
WitPeerUnchecked == FALSE

\* p.witPeer == nil
WitPeerMissing == ~hasWitPeer

\* RequestWitnesses up to the start of the first scheduling pass and of the
\* closer: the nil check, the channels, the maps, witReqsWg.Add(1)
RequestWitnesses(b) ==
  /\ fatal = ""
  /\ batch[b].pc = "idle"
  /\ IF WitPeerMissing
     THEN batch' = [batch EXCEPT
                      ![b].pc = "noPeer",
                      ![b].ret = [req |-> NoRequest, err |-> "witness peer not found"]]
     ELSE \E n \in 0 .. limit.hashes[b] :
            /\ n * TotalPages(1) <= limit.pages
            /\ batch' = [batch EXCEPT ![b] =
                        WgAdd([@ EXCEPT !.pc = "setup",
                                        !.hashes = [i \in 1 .. n |-> i],
                                        !.waiting = 1])]
  /\ UNCHANGED <<codec, hasWitPeer, peer, limit, faults, fatal>>

\* the rest of RequestWitnesses: wrapperReq copies the witReqs slice as it is
\* now, the adapter goroutine starts, the shim is returned
ReturnRequest(b) ==
  /\ fatal = ""
  /\ batch[b].pc = "setup"
  /\ batch' = [batch EXCEPT ![b].pc = "returned",
                            ![b].ret = [req |-> Shim(b), err |-> "nil"],
                            ![b].snap = batch[b].witReqs,
                            ![b].apc = "loop"]
  /\ UNCHANGED <<codec, hasWitPeer, peer, limit, faults, fatal>>

\* ethWitRequest.Close: close(r.Request.Cancel), then Close on every
\* sub-request the wrapper holds
Close(b) ==
  /\ fatal = ""
  /\ batch[b].pc = "returned"
  /\ IF batch[b].cancel
     THEN /\ fatal' = "close of closed channel"
          /\ UNCHANGED batch
     ELSE /\ batch' = [batch EXCEPT
                         ![b].cancel = TRUE,
                         ![b].closeRet = "nil",
                         ![b].reqs = [i \in DOMAIN @ |->
                                        IF i <= batch[b].snap
                                        THEN [@[i] EXCEPT !.closed = TRUE]
                                        ELSE @[i]]]
          /\ UNCHANGED fatal
  /\ UNCHANGED <<codec, hasWitPeer, peer, limit, faults>>

\* a loop over r.witReqs that goes on after a Close that returned an error
CloseWitReqsAll(reqs, n, e) ==
  [i \in DOMAIN reqs |-> IF i <= n /\ i # e THEN [reqs[i] EXCEPT !.closed = TRUE] ELSE reqs[i]]

\* the loop of ethWitRequest.Close over the n sub-requests the wrapper
\* holds, when the Close of the e-th returns an error: those before it are
\* closed, in creation order, and the loop returns at the e-th
CloseWitReqs(reqs, n, e) ==
  [i \in DOMAIN reqs |-> IF i <= n /\ i < e THEN [reqs[i] EXCEPT !.closed = TRUE] ELSE reqs[i]]

\* ethWitRequest.Close when the Close of one of the sub-requests returns an
\* error: close(r.Request.Cancel) first, then the loop up to that one
CloseRefused(b) ==
  /\ fatal = ""
  /\ batch[b].pc = "returned"
  /\ faults < limit.faults
  /\ \E e \in 1 .. batch[b].snap :
       IF batch[b].cancel
       THEN /\ fatal' = "close of closed channel"
            /\ UNCHANGED batch
       ELSE /\ batch' = [batch EXCEPT
                           ![b].cancel = TRUE,
                           ![b].closeRet = "err",
                           ![b].reqs = CloseWitReqs(@, batch[b].snap, e)]
            /\ UNCHANGED fatal
  /\ faults' = faults + 1
  /\ UNCHANGED <<codec, hasWitPeer, peer, limit>>

(* ------------------------- scheduling passes --------------------------- *)

\* the pass returns: buildRequestMu.Unlock, then witReqsWg.Done in the
\* goroutine that ran it
ExitBuilder(s) == WgDone([s EXCEPT !.bld = IdleBuilder])

\* buildRequestMu.Lock by one of the waiting passes
BuilderLock(b) ==
  /\ fatal = ""
  /\ batch[b].waiting > 0
  /\ batch[b].bld.bpc = "none"
  /\ batch' = [batch EXCEPT ![b].waiting = @ - 1,
                            ![b].bld = [IdleBuilder EXCEPT !.bpc = "range", !.bhi = 1]]
  /\ UNCHANGED <<codec, hasWitPeer, peer, limit, faults, fatal>>

\* a first loop that asks for one page more than the default while the page
\* total of the hash is unknown
RangeEndEager(s, h) ==
  IF Get(s.witTotalPages, h, 0) = 0 THEN DefaultPagesRequestPerWitness + 1
  ELSE s.witTotalPages[h]

\* the page at which the first loop stops for a hash: witTotalPages[hash],
\* or DefaultPagesRequestPerWitness while it is unknown
RangeEnd(s, h) ==
  IF Get(s.witTotalPages, h, 0) = 0 THEN DefaultPagesRequestPerWitness
  ELSE s.witTotalPages[h]

\* first loop, one hash: start and end are read under mapsMu.RLock; without
\* a page to request the loop moves to the next hash, and after the last
\* hash to the retry loop
BuilderRange(b) ==
  LET s == batch[b]
      d == s.bld
  IN /\ fatal = ""
     /\ d.bpc = "range"
     /\ IF d.bhi > Len(s.hashes)
        THEN batch' = [batch EXCEPT ![b].bld = [IdleBuilder EXCEPT !.bpc = "rbegin"]]
        ELSE LET h == s.hashes[d.bhi]
                 start == Get(s.witTotalRequest, h, 0)
                 end == RangeEnd(s, h)
             IN IF start < end
                THEN batch' = [batch EXCEPT ![b].bld =
                                 [d EXCEPT !.bpc = "send", !.bpage = start, !.bend = end]]
                ELSE batch' = [batch EXCEPT ![b].bld = [d EXCEPT !.bhi = @ + 1]]
     /\ UNCHANGED <<codec, hasWitPeer, peer, limit, faults, fatal>>

\* a semaphore made one permit too large
SemCapacityOneMore == DefaultConcurrentRequestsPerPeer + 1

\* capacity of witReqSem
SemCapacity == DefaultConcurrentRequestsPerPeer

\* doWitnessRequest up to the start of the forwarder: witReqSem <- 1 (blocks
\* while the semaphore is full), then Peer.RequestWitness
DoSend(s, h, p) ==
  [s EXCEPT !.witReqSem = @ + 1,
            !.reqs = Append(@, [hash |-> h, page |-> p, st |-> "sent",
                                closed |-> FALSE, err |-> FALSE])]

\* a doWitnessRequest that registers the request and never counts the page
\* as requested
DoRegisterUncounted(s, h, p) == WgAdd([s EXCEPT !.witReqs = @ + 1])

\* a doWitnessRequest that counts every sub-request, retries included
DoRegisterAlways(s, h, p) ==
  [WgAdd([s EXCEPT !.witReqs = @ + 1]) EXCEPT
     !.witTotalRequest = MapPut(@, h, Get(@, h, 0) + 1)]

\* the rest of doWitnessRequest: witReqsWg.Add(1), the append to witReqs and
\* the count of requested pages
DoRegister(s, h, p) ==
  LET s1 == WgAdd([s EXCEPT !.witReqs = @ + 1])
  IN IF p >= Get(s.witTotalRequest, h, 0)
     THEN [s1 EXCEPT !.witTotalRequest = MapPut(@, h, Get(@, h, 0) + 1)]
     ELSE s1

\* the page of the first loop or of the retry loop that the pass is at
BuilderHash(s) == IF s.bld.bpc \in {"send", "reg"} THEN s.hashes[s.bld.bhi] ELSE s.bld.bh
BuilderPage(s) == IF s.bld.bpc \in {"send", "reg"} THEN s.bld.bpage ELSE s.bld.bp

BuilderSend(b) ==
  LET s == batch[b]
  IN /\ fatal = ""
     /\ s.bld.bpc \in {"send", "rsend"}
     /\ s.witReqSem < SemCapacity
     /\ batch' = [batch EXCEPT ![b] =
                    [DoSend(s, BuilderHash(s), BuilderPage(s)) EXCEPT
                       !.bld.bpc = IF s.bld.bpc = "send" THEN "reg" ELSE "rreg"]]
     /\ UNCHANGED <<codec, hasWitPeer, peer, limit, faults, fatal>>

\* doWitnessRequest when Peer.RequestWitness returns an error: the permit
\* taken by `witReqSem <- 1` stays taken, nothing is registered, and the
\* error ends the pass (its caller drops the error and calls Done)
BuilderSendRefused(b) ==
  LET s == batch[b]
  IN /\ fatal = ""
     /\ faults < limit.faults
     /\ s.bld.bpc \in {"send", "rsend"}
     /\ s.witReqSem < SemCapacity
     /\ batch' = [batch EXCEPT ![b] = ExitBuilder([s EXCEPT !.witReqSem = @ + 1])]
     /\ faults' = faults + 1
     /\ UNCHANGED <<codec, hasWitPeer, peer, limit, fatal>>

\* first loop: after the request is registered, the next page of the hash or
\* the next hash
BuilderRegister(b) ==
  LET s == batch[b]
      d == s.bld
      s1 == DoRegister(s, BuilderHash(s), BuilderPage(s))
  IN /\ fatal = ""
     /\ d.bpc = "reg"
     /\ batch' = [batch EXCEPT ![b] =
                    IF d.bpage + 1 < d.bend
                    THEN [s1 EXCEPT !.bld.bpc = "send", !.bld.bpage = @ + 1]
                    ELSE [s1 EXCEPT !.bld.bpc = "range", !.bld.bhi = @ + 1,
                                    !.bld.bpage = 0, !.bld.bend = 0]]
     /\ UNCHANGED <<codec, hasWitPeer, peer, limit, faults, fatal>>

\* the hashes that have an inner map in failedRequests, and the pages of one
FailedHashes(s) == {k[1] : k \in DOMAIN s.failedRequests}
FailedPages(s, h) == {k[2] : k \in {x \in DOMAIN s.failedRequests : x[1] = h}}

\* where the retry loop goes after an entry: the next page of the inner
\* range, the next hash of the outer range, or out of the pass
AfterEntry(s) ==
  IF s.bld.bptodo # {} THEN [s EXCEPT !.bld.bpc = "rpage", !.bld.brc = NoRetry, !.bld.bp = 0]
  ELSE IF s.bld.bhtodo # {}
       THEN [s EXCEPT !.bld.bpc = "riter", !.bld.brc = NoRetry, !.bld.bp = 0, !.bld.bh = 0]
       ELSE ExitBuilder(s)

\* retry loop: `for hash := range failedRequests` starts
BuilderRetryBegin(b) ==
  LET s == batch[b]
  IN /\ fatal = ""
     /\ s.bld.bpc = "rbegin"
     /\ batch' = [batch EXCEPT ![b] =
                    IF FailedHashes(s) = {} THEN ExitBuilder(s)
                    ELSE [s EXCEPT !.bld.bpc = "riter", !.bld.bhtodo = FailedHashes(s)]]
     /\ UNCHANGED <<codec, hasWitPeer, peer, limit, faults, fatal>>

\* retry loop: the outer range yields a hash (in no fixed order) and
\* `for page := range failedRequests[hash]` starts
BuilderRetryHash(b) ==
  LET s == batch[b]
  IN /\ fatal = ""
     /\ s.bld.bpc = "riter"
     /\ \E h \in s.bld.bhtodo :
          batch' = [batch EXCEPT ![b].bld =
                      [@ EXCEPT !.bpc = "rpage", !.bh = h,
                                !.bhtodo = @ \ {h}, !.bptodo = FailedPages(s, h)]]
     /\ UNCHANGED <<codec, hasWitPeer, peer, limit, faults, fatal>>

\* retry loop: the inner range yields a page and its retryCount is copied
BuilderRetryRead(b) ==
  LET s == batch[b]
  IN /\ fatal = ""
     /\ s.bld.bpc = "rpage"
     /\ \E p \in s.bld.bptodo :
          LET rc == s.failedRequests[<<s.bld.bh, p>>]
          IN batch' = [batch EXCEPT ![b].bld =
                         [@ EXCEPT !.bpc = IF rc.ShouldRetryAgain THEN "rsend" ELSE "rwrite",
                                   !.bp = p, !.brc = rc, !.bptodo = @ \ {p}]]
     /\ UNCHANGED <<codec, hasWitPeer, peer, limit, faults, fatal>>

\* retry loop: the retried request is registered and the copy's flag cleared
BuilderRetryRegister(b) ==
  LET s == batch[b]
  IN /\ fatal = ""
     /\ s.bld.bpc = "rreg"
     /\ batch' = [batch EXCEPT ![b] =
                    [DoRegister(s, BuilderHash(s), BuilderPage(s)) EXCEPT
                       !.bld.bpc = "rwrite", !.bld.brc.ShouldRetryAgain = FALSE]]
     /\ UNCHANGED <<codec, hasWitPeer, peer, limit, faults, fatal>>

\* a retry loop that stores the entry with its retry flag as it was read
WriteBackFlagKept(s) == [s.bld.brc EXCEPT !.ShouldRetryAgain = TRUE]

\* the value the retry loop stores for the entry it has visited: its copy
WriteBack(s) == s.bld.brc

\* retry loop: failedRequests[hash][page] = retryCount
BuilderRetryWrite(b) ==
  LET s == batch[b]
  IN /\ fatal = ""
     /\ s.bld.bpc = "rwrite"
     /\ batch' = [batch EXCEPT ![b] =
                    AfterEntry([s EXCEPT !.failedRequests =
                                  MapPut(@, <<s.bld.bh, s.bld.bp>>, WriteBack(s))])]
     /\ UNCHANGED <<codec, hasWitPeer, peer, limit, faults, fatal>>

(* --------------------- the peer and the forwarders --------------------- *)

\* the forwarder of sub-request i moves the peer's reply into witReqResCh
Forward(s, i, res) ==
  [s EXCEPT !.reqs[i].st = "queued",
            !.witReqResCh = Append(@, [id |-> i, res |-> res])]

\* the peer delivers `res` for a sub-request that is waiting for its reply;
\* the send into the fan-in channel blocks while the buffer is full and
\* panics once the channel is closed
Deliver(b, i, res) ==
  LET s == batch[b]
  IN /\ s.reqs[i].st = "sent"
     /\ IF s.chClosed
        THEN /\ fatal' = "send on closed channel"
             /\ UNCHANGED batch
        ELSE /\ Len(s.witReqResCh) < DefaultConcurrentResponsesHandled
             /\ batch' = [batch EXCEPT ![b] = Forward(s, i, res)]
             /\ UNCHANGED fatal

\* the peer answers a page request with the page asked for
PeerReplyPage(b) ==
  /\ fatal = ""
  /\ \E i \in DOMAIN batch[b].reqs :
       Deliver(b, i, PageReply(batch[b].reqs[i].hash, batch[b].reqs[i].page))
  /\ UNCHANGED <<codec, hasWitPeer, peer, limit, faults>>

\* the peer answers a page request with a reply of unexpected shape
PeerReplyBadShape(b) ==
  /\ fatal = ""
  /\ faults < limit.faults
  /\ \E i \in DOMAIN batch[b].reqs : Deliver(b, i, BadShapeReply)
  /\ faults' = faults + 1
  /\ UNCHANGED <<codec, hasWitPeer, peer, limit>>

\* the peer answers a page request with the bytes of the page asked for
\* under a page index and a page total of its own choosing
PeerReplyForged(b) ==
  /\ fatal = ""
  /\ faults < limit.faults
  /\ \E i \in DOMAIN batch[b].reqs, idx \in 0 .. ForgedPages, total \in 1 .. ForgedPages :
       LET r == batch[b].reqs[i]
       IN Deliver(b, i, [ok |-> TRUE,
                         pages |-> << [Hash |-> r.hash, Page |-> idx, TotalPages |-> total,
                                       Data |-> PageData(r.hash, r.page)] >>])
  /\ faults' = faults + 1
  /\ UNCHANGED <<codec, hasWitPeer, peer, limit>>

\* the peer answers a page request with the page asked for and no payload
PeerReplyEmpty(b) ==
  /\ fatal = ""
  /\ faults < limit.faults
  /\ \E i \in DOMAIN batch[b].reqs :
       LET r == batch[b].reqs[i]
       IN Deliver(b, i, [ok |-> TRUE,
                         pages |-> << [Hash |-> r.hash, Page |-> r.page,
                                       TotalPages |-> TotalPages(r.hash),
                                       Data |-> <<>>] >>])
  /\ faults' = faults + 1
  /\ UNCHANGED <<codec, hasWitPeer, peer, limit>>

\* a hash that is in no hash list
ForeignHash == MaxHashes + 1

\* the peer answers a page request with the page of that index of a witness
\* nobody asked for, under that witness's hash
PeerReplyForeign(b) ==
  /\ fatal = ""
  /\ faults < limit.faults
  /\ \E i \in DOMAIN batch[b].reqs :
       LET r == batch[b].reqs[i]
       IN /\ r.page < TotalPages(ForeignHash)
          /\ Deliver(b, i, PageReply(ForeignHash, r.page))
  /\ faults' = faults + 1
  /\ UNCHANGED <<codec, hasWitPeer, peer, limit>>

(* --------------------------- reception loop ---------------------------- *)

RECURSIVE SortedOrders(_, _)
\* sort.Slice by Page: every order of the pages that ascends in Page (the
\* order of pages with equal Page is not specified)
SortedOrders(pages, idx) ==
  IF idx = {} THEN {<<>>}
  ELSE LET least == {i \in idx : \A j \in idx : pages[i].Page <= pages[j].Page}
       IN UNION {{<<pages[i]>> \o rest : rest \in SortedOrders(pages, idx \ {i})} :
                 i \in least}

\* the sort left out: the pages stay in the order they arrived in
ArrivalOrder(pages) == {pages}

\* the orders in which reconstructWitness may concatenate the pages
SortSlice(pages) == SortedOrders(pages, DOMAIN pages)

\* reconstructWitness on pages already sorted: concatenate and decode
ReconstructWitness(sorted) == RlpDecodeBytes(Concat(sorted))

\* receiveWitnessPage after a page has been taken in: witTotalPages[hash] is
\* set under mapsMu, and a scheduling pass is started (witReqsWg.Add(1), go)
AfterPage(s, page) ==
  WgAdd([s EXCEPT !.witTotalPages = MapPut(@, page.Hash, page.TotalPages),
                  !.waiting = @ + 1])

\* the received pages of a hash complete a witness
Complete(rec, page) == Len(rec) = page.TotalPages

RECURSIVE ProcessPages(_, _, _)
\* the loop of receiveWitnessPage over the pages of a packet, from page i:
\* the outcomes [s, err], err when reconstructWitness failed
ProcessPages(s, pages, i) ==
  IF i > Len(pages) THEN {[s |-> s, err |-> FALSE]}
  ELSE LET page == pages[i]
           rec == Append(Get(s.receivedWitPages, page.Hash, <<>>), page)
       IN IF Len(page.Data) = 0 THEN ProcessPages(s, pages, i + 1)
          ELSE IF Complete(rec, page)
          THEN UNION {
                 LET s1 == [s EXCEPT !.receivedWitPages = MapPut(@, page.Hash, sorted)]
                     r == ReconstructWitness(sorted)
                 IN IF ~r.ok THEN {[s |-> s1, err |-> TRUE]}
                    ELSE ProcessPages(
                           AfterPage([s1 EXCEPT !.reconstructedWitness =
                                        MapPut(@, page.Hash, r.wit)], page),
                           pages, i + 1)
                 : sorted \in SortSlice(rec)}
          ELSE ProcessPages(
                 AfterPage([s EXCEPT !.receivedWitPages = MapPut(@, page.Hash, rec)], page),
                 pages, i + 1)

\* a deferred handler that allows one retry more
CountFailureOneMore(rc) ==
  [FailCount |-> rc.FailCount + 1,
   ShouldRetryAgain |-> IF rc.FailCount + 1 <= DefaultMaxPagesRequestRetries + 1
                        THEN TRUE ELSE rc.ShouldRetryAgain]

\* the retry count the deferred handler stores for a failed page
CountFailure(rc) ==
  [FailCount |-> rc.FailCount + 1,
   ShouldRetryAgain |-> IF rc.FailCount + 1 <= DefaultMaxPagesRequestRetries
                        THEN TRUE ELSE rc.ShouldRetryAgain]

\* the deferred handler of receiveWitnessPage for the page of the failed
\* sub-request, then a new scheduling pass. A key created while a pass ranges
\* over the map may or may not be produced by that range.
RecordFailure(s, h, p) ==
  LET k == <<h, p>>
      old == IF k \in DOMAIN s.failedRequests THEN s.failedRequests[k] ELSE NoRetry
      s1 == WgAdd([s EXCEPT !.failedRequests = MapPut(@, k, CountFailure(old)),
                            !.waiting = @ + 1])
      inOuter == s.bld.bpc \in {"riter", "rpage", "rsend", "rreg", "rwrite"}
      inInner == s.bld.bpc \in {"rpage", "rsend", "rreg", "rwrite"} /\ s.bld.bh = h
  IN IF k \in DOMAIN s.failedRequests THEN {s1}
     ELSE IF h \notin FailedHashes(s) /\ inOuter /\ ~(inInner)
     THEN {s1, [s1 EXCEPT !.bld.bhtodo = @ \cup {h}]}
     ELSE IF h \in FailedHashes(s) /\ inInner
     THEN {s1, [s1 EXCEPT !.bld.bptodo = @ \cup {p}]}
     ELSE {s1}

\* receiveWitnessPage returned an error for sub-request id: the deferred
\* handler runs
Failed(s, id) ==
  RecordFailure([s EXCEPT !.reqs[id].err = TRUE], s.reqs[id].hash, s.reqs[id].page)

\* receiveWitnessPage: the states it may leave
ReceiveWitnessPage(s, item) ==
  IF ~item.res.ok THEN Failed(s, item.id)
  ELSE UNION {IF o.err THEN Failed(o.s, item.id) ELSE {o.s} :
              o \in ProcessPages(s, item.res.pages, 1)}

\* whether handling the head of the fan-in channel writes failedRequests
WritesFailedRequests(s) ==
  /\ s.witReqResCh # <<>>
  /\ \/ ~Head(s.witReqResCh).res.ok
     \/ \E o \in ProcessPages(s, Head(s.witReqResCh).res.pages, 1) : o.err

\* one turn of `for witRes := range witReqResCh`: receiveWitnessPage, then
\* <-witReqSem, Done <- nil, witReqsWg.Done(), lastWitRes
Receive(b) ==
  LET s == batch[b]
      item == Head(s.witReqResCh)
  IN /\ fatal = ""
     /\ s.apc = "loop"
     /\ s.witReqResCh # <<>>
     /\ \E s1 \in ReceiveWitnessPage([s EXCEPT !.witReqResCh = Tail(@)], item) :
          batch' = [batch EXCEPT ![b] =
                      WgDone([s1 EXCEPT !.witReqSem = @ - 1,
                                        !.reqs[item.id].st = "handled",
                                        !.lastWitRes = item.id])]
     /\ UNCHANGED <<codec, hasWitPeer, peer, limit, faults, fatal>>

\* failedRequests is guarded by no mutex: the deferred handler writes it
\* while a scheduling pass ranges over it, reads it or writes it back, and
\* the Go runtime ends the process when it meets the two together
MapRace(b) ==
  /\ fatal = ""
  /\ batch[b].apc = "loop"
  /\ WritesFailedRequests(batch[b])
  /\ batch[b].bld.bpc \in {"rbegin", "riter", "rpage", "rwrite"}
  /\ fatal' = "concurrent map iteration and map write"
  /\ UNCHANGED <<codec, hasWitPeer, peer, limit, faults, batch>>

(* ------------------------- closer and adapter -------------------------- *)

\* the closer: witReqsWg.Wait() has returned, close(witReqResCh)
CloseResults(b) ==
  /\ fatal = ""
  /\ batch[b].wgZero
  /\ ~batch[b].chClosed
  /\ batch' = [batch EXCEPT ![b].chClosed = TRUE]
  /\ UNCHANGED <<codec, hasWitPeer, peer, limit, faults, fatal>>

\* an aggregate whose Req is nil
EthResponseNoReq(s, b) == [Req |-> NoRequest, Res |-> s.reconstructedWitness]

\* the eth.Response the adapter builds: Req is the shim, Res the witnesses
\* reconstructed
EthResponse(s, b) == [Req |-> Shim(b), Res |-> s.reconstructedWitness]

\* the adapter leaves the range loop and builds ethRes; lastWitRes.Meta is
\* read through a pointer that is nil (0) when no reply was handled
BuildResponse(b) ==
  LET s == batch[b]
  IN /\ fatal = ""
     /\ s.apc = "loop"
     /\ s.witReqResCh = <<>>
     /\ s.chClosed
     /\ IF s.lastWitRes = 0
        THEN /\ fatal' = "nil pointer dereference"
             /\ UNCHANGED batch
        ELSE /\ batch' = [batch EXCEPT ![b].apc = "select",
                                       ![b].ethRes = EthResponse(s, b)]
             /\ UNCHANGED fatal
     /\ UNCHANGED <<codec, hasWitPeer, peer, limit, faults>>

\* a select that sends and comes round again instead of ending the goroutine
ForwardResponseAgain(b) ==
  /\ fatal = ""
  /\ batch[b].apc = "select"
  /\ Len(batch[b].sink) < 2
  /\ batch' = [batch EXCEPT ![b].sink = Append(@, batch[b].ethRes)]
  /\ UNCHANGED <<codec, hasWitPeer, peer, limit, faults, fatal>>

\* select: dlResCh <- ethRes, taken by the caller reading the sink
ForwardResponse(b) ==
  /\ fatal = ""
  /\ batch[b].apc = "select"
  /\ batch' = [batch EXCEPT ![b].apc = "done",
                            ![b].sink = Append(@, batch[b].ethRes)]
  /\ UNCHANGED <<codec, hasWitPeer, peer, limit, faults, fatal>>

\* select: <-wrapperReq.Request.Cancel
Cancelled(b) ==
  /\ fatal = ""
  /\ batch[b].apc = "select"
  /\ batch[b].cancel
  /\ batch' = [batch EXCEPT ![b].apc = "done"]
  /\ UNCHANGED <<codec, hasWitPeer, peer, limit, faults, fatal>>

(* --------------------------- specifications ---------------------------- *)

\* the steps of the scheduling passes of call b
Builder(b) ==
  \/ BuilderLock(b)
  \/ BuilderRange(b)
  \/ BuilderSend(b)
  \/ BuilderRegister(b)
  \/ BuilderRetryBegin(b)
  \/ BuilderRetryHash(b)
  \/ BuilderRetryRead(b)
  \/ BuilderRetryRegister(b)
  \/ BuilderRetryWrite(b)

\* the steps of call b with a peer that answers every page request with the
\* page asked for
Served(b) ==
  \/ RequestWitnesses(b)
  \/ ReturnRequest(b)
  \/ Builder(b)
  \/ PeerReplyPage(b)
  \/ Receive(b)
  \/ MapRace(b)
  \/ CloseResults(b)
  \/ BuildResponse(b)
  \/ ForwardResponse(b)

\* the steps of call b that do not depend on the caller cancelling
Run(b) ==
  \/ Served(b)
  \/ PeerReplyBadShape(b)

Next == Run(1)

NextCancel == Run(1) \/ Close(1) \/ Cancelled(1)

\* one call of RequestWitnesses, any hash list up to MaxHashes, a peer that
\* answers each page request with the page or with a reply of unexpected shape
Spec == Init /\ [][Next]_vars

\* the same with fewer faults, and a caller that may close the request it
\* was handed, at any time and more than once
InitCancel ==
  /\ InitCommon
  /\ peer \in Peers(WitnessLen, MaxBatchPages)
  /\ limit = [hashes |-> [b \in Batches |-> MaxHashes], pages |-> MaxBatchPages,
              faults |-> CancelFaults]

SpecCancel == InitCancel /\ [][NextCancel]_vars

\* a caller that may close the request it was handed while the Close of a
\* sub-request may return an error
InitClose ==
  /\ InitCommon
  /\ peer \in Peers(WitnessLen, MaxBatchPages)
  /\ limit = [hashes |-> [b \in Batches |-> MaxHashes], pages |-> MaxBatchPages,
              faults |-> CloseFaults]

NextClose == NextCancel \/ CloseRefused(1)

SpecClose == InitClose /\ [][NextClose]_vars

\* one hash whose witness, served as EncodeCompressed wrote it, has more
\* pages than the semaphore has permits
InitWide ==
  /\ InitCommon
  /\ peer = [framed |-> TRUE, witLen |-> WideLen, pageSize |-> 1]
  /\ limit = [hashes |-> [b \in Batches |-> 1], pages |-> WideLen + 2, faults |-> 0]

NextWide == Served(1)

SpecWide == InitWide /\ [][NextWide]_vars

\* two calls of RequestWitnesses on the same peer, each for single-page
\* witnesses
InitTwo ==
  /\ InitCommon
  /\ peer = [framed |-> TRUE, witLen |-> WitnessLen, pageSize |-> WitnessLen + 2]
  /\ limit = [hashes |-> [b \in Batches |-> IF b = 1 THEN TwoFirst ELSE TwoSecond],
              pages |-> TwoSecond, faults |-> 0]

\* the steps of call b for as long as the peer holds its answers back
Held(b) ==
  \/ RequestWitnesses(b)
  \/ ReturnRequest(b)
  \/ BuilderLock(b)
  \/ BuilderRange(b)
  \/ BuilderSend(b)
  \/ BuilderRegister(b)
  \/ BuilderRetryBegin(b)

\* the peer answers the first call and holds its answers to the second back
NextTwo == Served(1) \/ Held(2)

SpecTwo == InitTwo /\ [][NextTwo]_vars

\* one call, a peer that may label the bytes it returns as it likes
InitForged ==
  /\ InitCommon
  /\ peer \in Peers(WitnessLen, ForgedPages)
  /\ limit = [hashes |-> [b \in Batches |-> 1], pages |-> ForgedPages,
              faults |-> ForgedFaults]

NextForged == Run(1) \/ PeerReplyForged(1)

SpecForged == InitForged /\ [][NextForged]_vars

\* a peer that may refuse a sub-request when it is submitted
InitRefuse ==
  /\ InitCommon
  /\ peer \in Peers(WitnessLen, MaxBatchPages)
  /\ limit = [hashes |-> [b \in Batches |-> MaxHashes], pages |-> MaxBatchPages,
              faults |-> RefuseFaults]

NextRefuse == Run(1) \/ BuilderSendRefused(1)

SpecRefuse == InitRefuse /\ [][NextRefuse]_vars

\* a peer that may answer with pages of a witness that was not requested
InitForeign ==
  /\ InitCommon
  /\ peer \in Peers(WitnessLen, MaxBatchPages)
  /\ limit = [hashes |-> [b \in Batches |-> 1], pages |-> MaxBatchPages,
              faults |-> ForeignFaults]

NextForeign == Run(1) \/ PeerReplyForeign(1)

SpecForeign == InitForeign /\ [][NextForeign]_vars

\* one hash and a peer that may answer with a page that has no payload
InitEmpty ==
  /\ InitCommon
  /\ peer \in Peers(WitnessLen, MaxBatchPages)
  /\ limit = [hashes |-> [b \in Batches |-> 1], pages |-> MaxBatchPages,
              faults |-> EmptyFaults]

NextEmpty == Run(1) \/ PeerReplyEmpty(1)

SpecEmpty == InitEmpty /\ [][NextEmpty]_vars

(* ------------------------- the codec on its own ------------------------ *)

\* the witnesses encoded: the context header, one parent header, and any set
\* of state entries, the empty string among them
CodecContext == 1
CodecHeader == 2
CodecEntries == {3, 4, 5, 6, RlpEmptyString}
CodecWitnesses ==
  {[context |-> CodecContext, Headers |-> <<CodecHeader>>, State |-> S] :
     S \in SUBSET CodecEntries}

\* the configurations given to SetCompressionConfig
CodecConfigs ==
  [Enabled : BOOLEAN,
   Threshold : {0, MidThreshold, compressionThreshold},
   CompressionLevel : {GzipBestSpeed, TestCompressionLevel, GzipBestCompression},
   UseDeduplication : BOOLEAN]

InitCodec ==
  /\ hasWitPeer = TRUE
  /\ peer = [framed |-> TRUE, witLen |-> WitnessLen, pageSize |-> WitnessLen + 2]
  /\ limit = [hashes |-> [b \in Batches |-> 0], pages |-> 0, faults |-> 0]
  /\ faults = 0
  /\ fatal = ""
  /\ batch = [b \in Batches |-> NewBatch]
  /\ codec \in {[IdleCodec EXCEPT !.pc = "idle", !.cfg = cfg, !.w = w] :
                  cfg \in CodecConfigs, w \in CodecWitnesses}

\* w.EncodeCompressed(&buf) under the configuration set: w0 is the witness
\* before the call, w the witness after it
EncodeCompressedCall ==
  /\ codec.pc = "idle"
  /\ \E e \in EncodeRLP(codec.cfg, codec.w) :
       LET out == IF EncodeFails(codec.cfg, e.rlp) THEN <<>>
                  ELSE EncodeFrame(codec.cfg, e.rlp)
       IN codec' = [codec EXCEPT
                      !.pc = IF EncodeFails(codec.cfg, e.rlp)
                             THEN "encodeFailed" ELSE "encoded",
                      !.round = @ + 1,
                      !.w0 = codec.w, !.w = e.w, !.rlp = e.rlp, !.out = out,
                      !.m = EncodeMetrics(@, codec.cfg, e.rlp, out)]
  /\ UNCHANGED <<hasWitPeer, peer, limit, faults, fatal, batch>>

\* DecodeCompressed(data) into a new witness
Decode(data) ==
  codec' = [codec EXCEPT !.pc = "decoded", !.data = data,
                         !.dec = DecodeCompressed(data),
                         !.m = DecodeMetrics(@, data)]

\* decodedWitness.DecodeCompressed(buf.Bytes())
DecodeCompressedCall ==
  /\ codec.pc = "encoded"
  /\ Decode(codec.out)
  /\ UNCHANGED <<hasWitPeer, peer, limit, faults, fatal, batch>>

NextCodec == EncodeCompressedCall \/ DecodeCompressedCall

SpecCodec == InitCodec /\ [][NextCodec]_vars

\* what a damaged copy of the output `out` may be: nothing at all; out with
\* another first byte (the other marker, or 0x00 and 0x01 with bit 1
\* flipped); out without its last byte; out with the byte after the marker
\* changed
Tampered(out) ==
  {<<>>}
    \cup {<<mk>> \o Tail(out) :
            mk \in {UncompressedMarker, CompressedMarker, BadMarker, BadMarker + 1}
                     \ {out[1]}}
    \cup {SubSeq(out, 1, Len(out) - 1)}
    \cup {[out EXCEPT ![2] = @ + 1]}

\* decodedWitness.DecodeCompressed on a damaged copy of the output
DecodeTamperedCall ==
  /\ codec.pc = "encoded"
  /\ \E data \in Tampered(codec.out) : Decode(data)
  /\ UNCHANGED <<hasWitPeer, peer, limit, faults, fatal, batch>>

NextTamper == EncodeCompressedCall \/ DecodeTamperedCall

\* recv.DecodeCompressed on the output or on a damaged copy of it, recv a
\* new witness or the witness that was encoded
DecodeIntoCall ==
  /\ codec.pc = "encoded"
  /\ \E data \in {codec.out} \cup Tampered(codec.out), recv \in {NoWitness, codec.w} :
       codec' = [codec EXCEPT !.pc = "decoded", !.data = data, !.recv = recv,
                              !.dec = [ok |-> DecodeCompressed(data).ok,
                                       wit |-> DecodeCompressedInto(recv, data)],
                              !.m = DecodeMetrics(@, data)]
  /\ UNCHANGED <<hasWitPeer, peer, limit, faults, fatal, batch>>

NextFrame == EncodeCompressedCall \/ DecodeIntoCall

SpecFrame == InitCodec /\ [][NextFrame]_vars

SpecTamper == InitCodec /\ [][NextTamper]_vars

\* the configurations of the runs that read the metrics: the level is not
\* validated by SetCompressionConfig
MetricsConfigs ==
  [Enabled : BOOLEAN,
   Threshold : {0, MidThreshold},
   CompressionLevel : {TestCompressionLevel, InvalidLevel},
   UseDeduplication : BOOLEAN]

\* resetMetrics(), a witness and SetCompressionConfig(config)
InitMetrics ==
  /\ hasWitPeer = TRUE
  /\ peer = [framed |-> TRUE, witLen |-> WitnessLen, pageSize |-> WitnessLen + 2]
  /\ limit = [hashes |-> [b \in Batches |-> 0], pages |-> 0, faults |-> 0]
  /\ faults = 0
  /\ fatal = ""
  /\ batch = [b \in Batches |-> NewBatch]
  /\ codec \in {[IdleCodec EXCEPT !.pc = "idle", !.cfg = cfg, !.w = w] :
                  cfg \in MetricsConfigs, w \in CodecWitnesses}

\* SetCompressionConfig(config) after a turn of the test loop (an
\* EncodeCompressed that failed, or an EncodeCompressed and the
\* DecodeCompressed of its output), before the next turn on the same witness;
\* buf and decodedWitness of the last turn are dropped
SetCompressionConfig ==
  /\ codec.pc \in {"encodeFailed", "decoded"}
  /\ codec.round < MaxRounds
  /\ \E cfg \in MetricsConfigs :
       codec' = [IdleCodec EXCEPT !.pc = "idle", !.cfg = cfg, !.w = codec.w,
                                  !.round = codec.round, !.m = codec.m]
  /\ UNCHANGED <<hasWitPeer, peer, limit, faults, fatal, batch>>

NextMetrics == EncodeCompressedCall \/ DecodeCompressedCall \/ SetCompressionConfig

SpecMetrics == InitMetrics /\ [][NextMetrics]_vars

(* ------------------------------ properties ----------------------------- *)

\* the sub-requests of call b sent to the peer whose reply the reception
\* loop has not handled yet
InFlight(b) ==
  Cardinality({i \in DOMAIN batch[b].reqs : batch[b].reqs[i].st # "handled"})

\* the sub-requests of s for page p of hash h, and those among them for
\* which receiveWitnessPage returned an error
Sends(s, h, p) ==
  Cardinality({i \in DOMAIN s.reqs : s.reqs[i].hash = h /\ s.reqs[i].page = p})
Failures(s, h, p) ==
  Cardinality({i \in DOMAIN s.reqs :
                 s.reqs[i].hash = h /\ s.reqs[i].page = p /\ s.reqs[i].err})

\* the same, over all the pages of hash h
SendsOfHash(s, h) == Cardinality({i \in DOMAIN s.reqs : s.reqs[i].hash = h})
FailuresOfHash(s, h) ==
  Cardinality({i \in DOMAIN s.reqs : s.reqs[i].hash = h /\ s.reqs[i].err})

\* the pages are one page for every index from 0 to their number less one
ExactPages(pages) ==
  {pages[i].Page : i \in DOMAIN pages} = 0 .. (Len(pages) - 1)

\* the hashes of a hash list
Hashes(s) == {s.hashes[i] : i \in DOMAIN s.hashes}

\* C1: a call on a peer whose witPeer is absent returns a nil request and
\* the error "witness peer not found" and leaves everything else as it was:
\* no sub-request, no goroutine, no batch state, and at no later time a
\* message on the sink.
C1_NoWitPeer ==
  \A b \in Batches :
    (~hasWitPeer /\ batch[b].pc # "idle") =>
      batch[b] = [NewBatch EXCEPT
                    !.pc = "noPeer",
                    !.ret = [req |-> NoRequest, err |-> "witness peer not found"]]

C1_Witness == ~hasWitPeer /\ batch[1].pc = "noPeer"

\* C2: one hash, a peer that answers page 0 with one page (TotalPages = 1)
\* carrying the EncodeCompressed bytes of the witness: when the call has
\* finished, exactly one sub-request was sent, for {hash, page 0}, and the
\* sink holds one aggregate with exactly that witness.
C2_SinglePage ==
  LET s == batch[1]
  IN (/\ peer.framed
      /\ TotalPages(1) = 1
      /\ s.hashes = <<1>>
      /\ faults = 0
      /\ s.apc = "done")
     => /\ Len(s.reqs) = 1
        /\ s.reqs[1].hash = 1
        /\ s.reqs[1].page = 0
        /\ Len(s.sink) = 1
        /\ s.sink[1].Res = MapPut(<<>>, 1, Witness(1, peer.witLen))

\* C3: a call with a non-empty hash list that the caller never cancels and
\* whose sub-requests the peer answers one reply each does not stop before
\* it has put exactly one aggregate on the sink.
C3_Delivers ==
  LET s == batch[1]
  IN (s.pc = "returned" /\ s.hashes # <<>> /\ ~ENABLED Next) => Len(s.sink) = 1

\* C4: whatever the retries, the failed witnesses and the cancellations, at
\* most one message is ever sent on the sink of a call.
C4_AtMostOne == \A b \in Batches : Len(batch[b].sink) <= 1

C4_Witness ==
  LET s == batch[1]
  IN /\ s.cancel
     /\ Len(s.sink) = 1
     /\ \E i \in DOMAIN s.reqs : s.reqs[i].err
     /\ \E h \in Hashes(s) : h \notin DOMAIN s.sink[1].Res

\* C5: within one call, the sub-requests sent to the peer and not yet handled
\* by the reception loop are never more than
\* DefaultConcurrentRequestsPerPeer (5), however many pages there are and
\* whatever fails and is retried; with more pages to ask for than permits
\* the number 5 is reached.
C5_InFlight == InFlight(1) <= DefaultConcurrentRequestsPerPeer

C5_Witness ==
  /\ InFlight(1) = DefaultConcurrentRequestsPerPeer
  /\ batch[1].bld.bpc = "send"
  /\ \E i \in DOMAIN batch[1].reqs : batch[1].reqs[i].st = "handled"

\* C6: the limit holds for the peer: the sub-requests in flight to one peer
\* are never more than DefaultConcurrentRequestsPerPeer (5), two calls of
\* RequestWitnesses on that peer taken together.
C6_PerPeer == InFlight(1) + InFlight(2) <= DefaultConcurrentRequestsPerPeer

\* C7: when every page failed at most DefaultMaxPagesRequestRetries (2)
\* times, the finished call has every witness in its aggregate and has sent,
\* for each witness, as many sub-requests as the witness has pages plus the
\* failed attempts: no retry is lost and none is made twice.
C7_RetrySuccess ==
  LET s == batch[1]
  IN (/\ ~peer.framed
      /\ s.apc = "done"
      /\ \A i \in DOMAIN s.reqs :
           Failures(s, s.reqs[i].hash, s.reqs[i].page) <= DefaultMaxPagesRequestRetries)
     => \A h \in Hashes(s) :
          /\ h \in DOMAIN s.sink[1].Res
          /\ SendsOfHash(s, h) = TotalPages(h) + FailuresOfHash(s, h)

C9_NoPartial ==
  [][\A h \in DOMAIN batch'[1].reconstructedWitness :
       h \notin DOMAIN batch[1].reconstructedWitness
         => ExactPages(batch'[1].receivedWitPages[h])]_vars

\* C10: whatever the order in which the reception loop handles the pages of
\* a witness, the bytes given to the decoder are the payloads joined in
\* ascending page index, and the witness reconstructed is the one the peer
\* holds.
C10_AnyOrder ==
  LET s == batch[1]
  IN \A h \in Hashes(s) :
       /\ (h \in DOMAIN s.receivedWitPages
             /\ Len(s.receivedWitPages[h]) = TotalPages(h))
            => Concat(s.receivedWitPages[h]) = Blob(h)
       /\ h \in DOMAIN s.reconstructedWitness
            => s.reconstructedWitness[h] = Witness(h, peer.witLen)

C10_Witness ==
  LET s == batch[1]
  IN /\ TotalPages(1) = MaxBatchPages
     /\ faults = 0
     /\ Len(s.sink) = 1
     /\ 1 \in DOMAIN s.sink[1].Res
     /\ s.sink[1].Res[1] = Witness(1, peer.witLen)
     /\ s.lastWitRes # 0
     /\ s.reqs[s.lastWitRes].page = 1

\* C11: once the caller has closed the logical request (the Cancel channel
\* is closed), no further sub-request is sent to the peer for the batch,
\* neither for a newly learned page nor for a retry.
C11_NoSendAfterCancel ==
  [][batch[1].cancel => Len(batch'[1].reqs) = Len(batch[1].reqs)]_vars

\* C12: when the caller closes the handle, Close is invoked on every
\* sub-request that was sent for the batch and whose reply has not been
\* handled yet, those created after the handle was constructed included.
C12_CloseReachesAll ==
  [][(~batch[1].cancel /\ batch'[1].cancel) =>
       \A i \in DOMAIN batch[1].reqs :
         batch[1].reqs[i].st # "handled" => batch'[1].reqs[i].closed]_vars

\* C13: after the caller's close of the logical request has returned, no
\* send is performed on the caller's sink, for every interleaving of the
\* close with the adapter's final select.
C13_NoSinkSendAfterClose ==
  [][batch[1].cancel => batch'[1].sink = batch[1].sink]_vars

\* C14: a second (or later) Close of the logical request leaves the batch
\* as the first Close left it and does not fault.
C14_CloseIdempotent == fatal # "close of closed channel"

\* the sub-requests of s for page p of hash h that were sent to the peer and
\* whose reply the reception loop has not handled yet
InFlightOfPage(s, h, p) ==
  Cardinality({i \in DOMAIN s.reqs :
                 s.reqs[i].hash = h /\ s.reqs[i].page = p
                   /\ s.reqs[i].st # "handled"})

\* C15: at every instant and for every (hash, page index), at most one
\* sub-request for that pair is in flight to the peer (sent, its reply not
\* yet handled), over the first requests of all the scheduling passes and
\* the retries.
C15_OneInFlightPerPage ==
  \A b \in Batches : \A i \in DOMAIN batch[b].reqs :
    InFlightOfPage(batch[b], batch[b].reqs[i].hash, batch[b].reqs[i].page) <= 1

\* a retry of a page is in flight while another page of the batch is too
C15_Witness ==
  \E i, j \in DOMAIN batch[1].reqs :
    /\ i < j
    /\ batch[1].reqs[i].hash = batch[1].reqs[j].hash
    /\ batch[1].reqs[i].page = batch[1].reqs[j].page
    /\ batch[1].reqs[i].err
    /\ batch[1].reqs[j].st # "handled"
    /\ InFlight(1) >= 2

\* C16: once a page of hash h has set the page total of h, the total never
\* changes: a later page of h that reports another TotalPages does not
\* replace it (the witness is failed instead).
C16_TotalAgreement ==
  [][\A h \in DOMAIN batch[1].witTotalPages :
       Get(batch'[1].witTotalPages, h, 0) = batch[1].witTotalPages[h]]_vars

C18_Correlated ==
  \A b \in Batches : \A k \in DOMAIN batch[b].sink :
    /\ batch[b].ret.req # NoRequest
    /\ batch[b].sink[k].Req = batch[b].ret.req
    /\ batch[b].sink[k].Res = batch[b].reconstructedWitness

\* an aggregate with a witness in it has been delivered
C18_Witness ==
  /\ Len(batch[1].sink) = 1
  /\ batch[1].sink[1].Req = Shim(1)
  /\ DOMAIN batch[1].sink[1].Res # {}

\* C19: for every witness and every configuration (compression enabled or
\* not, any threshold, any level from 1 to 9), DecodeCompressed of the
\* output of EncodeCompressed succeeds and yields a witness with the
\* context, the headers and the state entries of the witness as it stands
\* after the encoding.
C19_RoundTrip ==
  codec.pc = "decoded" => (codec.dec.ok /\ codec.dec.wit = codec.w)

\* a witness that went through gzip, with a state entry kept, is decoded
C19_Witness ==
  /\ codec.pc = "decoded"
  /\ codec.out[1] = CompressedMarker
  /\ codec.dec.wit.State # {}

\* C20: the first byte of the output of EncodeCompressed is 0x01 exactly
\* when compression is enabled, the RLP is longer than the threshold and
\* the gzip stream is shorter than the RLP, and the gzip stream follows; in
\* every other case the first byte is 0x00 and the RLP follows unchanged.
C20_MarkerSelection ==
  codec.pc \in {"encoded", "decoded"} =>
    LET gz == Gzip(codec.cfg.CompressionLevel, codec.rlp)
        pays == /\ codec.cfg.Enabled
                /\ Len(codec.rlp) > codec.cfg.Threshold
                /\ Len(gz) < Len(codec.rlp)
    IN /\ codec.rlp \in {e.rlp : e \in EncodeRLP(codec.cfg, codec.w)}
       /\ pays => codec.out = <<CompressedMarker>> \o gz
       /\ ~pays => codec.out = <<UncompressedMarker>> \o codec.rlp

\* compression is enabled and the RLP is exactly as long as the threshold:
\* the output is not compressed although gzip would have made it shorter
C20_Witness ==
  /\ codec.pc = "encoded"
  /\ codec.cfg.Enabled
  /\ Len(codec.rlp) = codec.cfg.Threshold
  /\ Len(Gzip(codec.cfg.CompressionLevel, codec.rlp)) < Len(codec.rlp)
  /\ codec.out[1] = UncompressedMarker

\* C21: DecodeCompressed returns an error on empty input, on a first byte
\* other than 0x00 and 0x01, on a damaged gzip stream and on a malformed
\* RLP tail; a valid output whose marker byte has one bit flipped is never
\* decoded successfully.
C21_MarkerIntegrity ==
  (codec.pc = "decoded" /\ codec.data # codec.out) => ~codec.dec.ok

\* C22: starting from reset metrics, after any sequence of calls of
\* EncodeCompressed and DecodeCompressed (compressed path, uncompressed
\* path, or a call that returns an error), space_saved_bytes equals
\* total_original_size minus total_compressed_size.
C22_SizeAccounting ==
  codec.m.spaceSavedBytes = codec.m.totalOriginalSize - codec.m.totalCompressedSize

\* C23: every successful EncodeCompressed increments exactly one of
\* compression_count and uncompressed_count, by one; DecodeCompressed
\* increments decompression_count, by one, exactly when its input has the
\* marker 0x01 and gunzips; so after N round trips that all took the
\* compressed path both compression_count and decompression_count are N.
C23_OperationCounters ==
  [][LET m == codec.m
         n == codec'.m
     IN /\ codec'.pc = "encoded" =>
             \/ /\ n.compressionCount = m.compressionCount + 1
                /\ n.uncompressedCount = m.uncompressedCount
             \/ /\ n.compressionCount = m.compressionCount
                /\ n.uncompressedCount = m.uncompressedCount + 1
        /\ codec'.pc = "decoded" =>
             /\ n.compressionCount = m.compressionCount
             /\ n.uncompressedCount = m.uncompressedCount
             /\ n.decompressionCount =
                  m.decompressionCount
                    + (IF /\ codec'.data # <<>>
                          /\ codec'.data[1] = CompressedMarker
                          /\ Gunzip(Tail(codec'.data)).ok
                       THEN 1 ELSE 0)
        /\ (codec'.pc = "decoded" /\ n.compressionCount = codec'.round) =>
             n.decompressionCount = codec'.round]_vars

\* three round trips, each through gzip, have been counted
C23_Witness ==
  /\ codec.pc = "decoded"
  /\ codec.round = MaxRounds
  /\ codec.m.compressionCount = MaxRounds
  /\ codec.m.decompressionCount = MaxRounds

\* the outputs EncodeCompressed may write for the witness codec.w0 under the
\* configuration of the run with UseDeduplication off
OutputsUnoptimized ==
  LET cfg == [codec.cfg EXCEPT !.UseDeduplication = FALSE]
  IN {[rlp |-> e.rlp, out |-> EncodeFrame(cfg, e.rlp)] : e \in EncodeRLP(cfg, codec.w0)}

\* EncodeCompressed has run with UseDeduplication on a witness that had the
\* empty string among its state entries
OptimizedRun ==
  /\ codec.pc \in {"encoded", "decoded"}
  /\ codec.cfg.UseDeduplication
  /\ RlpEmptyString \in codec.w0.State

Handles(i) ==
  /\ i \in DOMAIN batch[1].reqs
  /\ batch[1].reqs[i].st = "queued"
  /\ batch'[1].reqs[i].st = "handled"

\* C25: a page reply whose payload has zero bytes is a failure of that page:
\* when it is handled the fail count of the page is incremented (and the
\* page is asked for again while the count allows); it is never skipped.
C25_EmptyPayload ==
  [][\A i \in DOMAIN batch[1].reqs :
       (/\ Handles(i)
        /\ Head(batch[1].witReqResCh).res.ok
        /\ \E k \in DOMAIN Head(batch[1].witReqResCh).res.pages :
             Head(batch[1].witReqResCh).res.pages[k].Data = <<>>)
       => /\ batch'[1].reqs[i].err
          /\ Get(batch'[1].failedRequests, <<batch[1].reqs[i].hash, batch[1].reqs[i].page>>,
                 NoRetry).FailCount
               = Get(batch[1].failedRequests, <<batch[1].reqs[i].hash, batch[1].reqs[i].page>>,
                     NoRetry).FailCount + 1]_vars

\* C26: a second or later reply for the same (hash, page index) is
\* discarded: the received pages of the hash, its completion and the
\* reconstructed witness are as they were before it was handled.
C26_DuplicatePages ==
  [][\A i \in DOMAIN batch[1].reqs :
       (/\ Handles(i)
        /\ Head(batch[1].witReqResCh).res.ok
        /\ \E k \in DOMAIN Head(batch[1].witReqResCh).res.pages :
             LET page == Head(batch[1].witReqResCh).res.pages[k]
             IN \E j \in DOMAIN Get(batch[1].receivedWitPages, page.Hash, <<>>) :
                  batch[1].receivedWitPages[page.Hash][j].Page = page.Page)
       => /\ batch'[1].receivedWitPages = batch[1].receivedWitPages
          /\ batch'[1].reconstructedWitness = batch[1].reconstructedWitness]_vars

\* C27: a page whose index is greater than or equal to the page total
\* established for its hash is discarded: it is never among the received
\* pages of the hash and gives no bytes to the reconstructed witness.
C27_ExtraPages ==
  \A h \in DOMAIN batch[1].receivedWitPages :
    \A j \in DOMAIN batch[1].receivedWitPages[h] :
      LET page == batch[1].receivedWitPages[h][j]
      IN /\ page.Page < page.TotalPages
         /\ h \in DOMAIN batch[1].witTotalPages => page.Page < batch[1].witTotalPages[h]

\* a submission of call b was refused by the peer: its permit is still taken
Refused(b) == batch[b].witReqSem > InFlight(b)

\* C28: once the peer has refused a sub-request, at any point of the batch,
\* no further sub-request is sent and no step faults; and the aggregate the
\* batch emits holds the witnesses reconstructed so far.
C28_FatalSendError ==
  [][Refused(1) =>
       /\ fatal' = ""
       /\ Len(batch'[1].reqs) = Len(batch[1].reqs)
       /\ \A i \in DOMAIN batch'[1].sink :
            batch'[1].sink[i].Res = batch'[1].reconstructedWitness]_vars

\* C29: in every state the permits held are as many as the sub-requests
\* sent and not yet handled: a permit is released exactly once when its
\* sub-request is handled (as success or failure) or refused by the peer.
C29_PermitAccounting == batch[1].witReqSem = InFlight(1)

\* C30: for every hash the first sub-request sent asks for page 0; a
\* sub-request for a page >= 1 is sent only after a handled page of the hash
\* has set its page total, and only for an index below that total.
C30_ProbeOrdering ==
  [][\A i \in DOMAIN batch'[1].reqs :
       i \notin DOMAIN batch[1].reqs =>
         LET r == batch'[1].reqs[i]
         IN /\ (\A j \in 1 .. i - 1 : batch[1].reqs[j].hash # r.hash) => r.page = 0
            /\ r.page >= 1 => /\ r.hash \in DOMAIN batch[1].witTotalPages
                              /\ r.page < batch[1].witTotalPages[r.hash]]_vars

\* a page beyond the first of a witness of several pages has been requested
\* after the reply to page 0
C30_Witness ==
  \E i, j \in DOMAIN batch[1].reqs :
    /\ j < i
    /\ batch[1].reqs[j].hash = batch[1].reqs[i].hash
    /\ batch[1].reqs[j].page = 0
    /\ batch[1].reqs[j].st = "handled"
    /\ batch[1].reqs[i].page >= 1

\* the reception loop handles the reply of sub-request i, whose body is not
\* a witness page packet
HandlesBadShape(i) == Handles(i) /\ ~Head(batch[1].witReqResCh).res.ok

\* every page of s that failed at most DefaultMaxPagesRequestRetries times
\* was requested again after each of its failures
Rerequested(s) ==
  \A i \in DOMAIN s.reqs :
    LET h == s.reqs[i].hash
        p == s.reqs[i].page
    IN Failures(s, h, p) <= DefaultMaxPagesRequestRetries
         => Sends(s, h, p) >= Failures(s, h, p) + 1

\* C31: handling a reply of unexpected shape fails the page named in its
\* sub-request and no other: one failure is recorded for it, a new scheduling
\* pass is started, the pages received, the witnesses reconstructed and the
\* other sub-requests are as before; and the page is requested again as long
\* as its fail count is at most DefaultMaxPagesRequestRetries.
C31_UnexpectedShape ==
  [][/\ \A i \in DOMAIN batch[1].reqs :
          HandlesBadShape(i) =>
            LET s == batch[1]
                t == batch'[1]
                k == <<s.reqs[i].hash, s.reqs[i].page>>
                old == Get(s.failedRequests, k, NoRetry)
            IN /\ t.reqs[i].err
               /\ k \in DOMAIN t.failedRequests
               /\ t.failedRequests[k].FailCount = old.FailCount + 1
               /\ t.failedRequests[k].FailCount <= DefaultMaxPagesRequestRetries
                    => t.failedRequests[k].ShouldRetryAgain
               /\ \A k2 \in DOMAIN t.failedRequests \ {k} :
                    /\ k2 \in DOMAIN s.failedRequests
                    /\ t.failedRequests[k2] = s.failedRequests[k2]
               /\ t.waiting = s.waiting + 1
               /\ t.receivedWitPages = s.receivedWitPages
               /\ t.reconstructedWitness = s.reconstructedWitness
               /\ t.witTotalPages = s.witTotalPages
               /\ \A j \in DOMAIN s.reqs \ {i} : t.reqs[j] = s.reqs[j]
     /\ (batch'[1].apc = "done" /\ ~peer.framed) => Rerequested(batch'[1])]_vars

\* the pages of hash h were complete and reconstructWitness failed to decode
\* their bytes (the pages stay in receivedWitPages, sorted, and later pages
\* of h are appended after them)
DecodeFailed(s, h) ==
  LET rec == Get(s.receivedWitPages, h, <<>>)
  IN /\ rec # <<>>
     /\ Len(rec) >= rec[1].TotalPages
     /\ ~ReconstructWitness(SubSeq(rec, 1, rec[1].TotalPages)).ok

\* C32: once the reassembled bytes of a witness have failed to decode, the
\* witness is failed for good: it is not among the reconstructed witnesses
\* nor in the aggregate, and the call does not stop before it has put its
\* aggregate on the sink.
C32_DecodeFailure ==
  LET s == batch[1]
  IN \A h \in Hashes(s) :
       DecodeFailed(s, h) =>
         /\ h \notin DOMAIN s.reconstructedWitness
         /\ \A k \in DOMAIN s.sink : h \notin DOMAIN s.sink[k].Res
         /\ ~ENABLED Next => Len(s.sink) = 1

\* C33: the fan-in channel is closed only when no sub-request is in flight
\* and no scheduling pass is running or waiting for the lock; no forwarder
\* sends on the closed channel and no sub-request is created after the
\* close, in every interleaving, replies without a usable page included.
C33_CloseTiming ==
  LET s == batch[1]
  IN /\ fatal # "send on closed channel"
     /\ s.chClosed => /\ InFlight(1) = 0
                      /\ s.bld.bpc = "none"
                      /\ s.waiting = 0

\* C34: the reception loop and the scheduling passes use the failures map
\* under a common lock: no pass ranges over it, reads it or writes an entry
\* back while the reception loop is updating it, and no fail count or retry
\* flag the reception loop has stored is replaced by a pass's older copy.
C34_LockDiscipline ==
  [][/\ fatal' # "concurrent map iteration and map write"
     /\ \A k \in DOMAIN batch[1].failedRequests :
          /\ k \in DOMAIN batch'[1].failedRequests
          /\ batch'[1].failedRequests[k].FailCount >= batch[1].failedRequests[k].FailCount]_vars

\* the sub-requests of s that doWitnessRequest has finished with: all but
\* the one a pass has submitted and not yet registered
Registered(s) ==
  IF s.bld.bpc \in {"reg", "rreg"} THEN 1 .. (Len(s.reqs) - 1) ELSE DOMAIN s.reqs

\* the page indices of hash h requested so far
PagesSent(s, h) == {s.reqs[i].page : i \in {j \in Registered(s) : s.reqs[j].hash = h}}

\* C35: for every hash h, witTotalRequest[h] is the number of distinct pages
\* of h requested so far and those pages are 0 .. witTotalRequest[h] - 1; a
\* retry of a page already requested leaves the counter as it is.
C35_RequestedCount ==
  LET s == batch[1]
  IN \A h \in Hashes(s) \cup DOMAIN s.witTotalRequest :
       /\ Get(s.witTotalRequest, h, 0) = Cardinality(PagesSent(s, h))
       /\ PagesSent(s, h) = 0 .. (Get(s.witTotalRequest, h, 0) - 1)

\* a retry has been registered for a hash of which two pages were requested
C35_Witness ==
  LET s == batch[1]
  IN \E i, j \in Registered(s) :
       /\ i < j
       /\ s.reqs[i].hash = s.reqs[j].hash
       /\ s.reqs[i].page = s.reqs[j].page
       /\ Get(s.witTotalRequest, s.reqs[i].hash, 0) >= 2

\* C36: the aggregate holds one witness per hash at most (Res is keyed by
\* hash) and only witnesses of hashes of the request's hash list, whatever
\* hashes the peer puts in its pages.
C36_RequestedOnly ==
  \A k \in DOMAIN batch[1].sink : DOMAIN batch[1].sink[k].Res \subseteq Hashes(batch[1])

\* the wrapper's Close runs in this step
Closes == ~batch[1].cancel /\ batch'[1].cancel

\* C37: ethWitRequest.Close closes the cancel channel before any
\* sub-request (a Close that panics on the closed channel has closed none),
\* then the sub-requests the wrapper holds in creation order; when closing
\* one of them returns an error Close returns it at once: those before it
\* are closed, that one and those after it are as they were.
C37_CloseOrder ==
  [][LET s == batch[1]
         t == batch'[1]
     IN /\ (\E i \in DOMAIN s.reqs : ~s.reqs[i].closed /\ t.reqs[i].closed) => Closes
        /\ fatal' = "close of closed channel" => t.reqs = s.reqs
        /\ Closes =>
             /\ t.closeRet \in {"nil", "err"}
             /\ t.closeRet = "nil" => \A i \in 1 .. s.snap : t.reqs[i].closed
             /\ t.closeRet = "err" =>
                  \E e \in 1 .. s.snap :
                    /\ \A i \in 1 .. (e - 1) : t.reqs[i].closed
                    /\ \A i \in e .. Len(s.reqs) : t.reqs[i] = s.reqs[i]
             /\ \A i \in (s.snap + 1) .. Len(s.reqs) : t.reqs[i] = s.reqs[i]]_vars

\* Close has returned the error of the second sub-request it holds: the
\* first is closed, the second is not
C37_Witness ==
  LET s == batch[1]
  IN /\ s.closeRet = "err"
     /\ s.snap >= 2
     /\ s.reqs[1].closed
     /\ ~s.reqs[2].closed

C39_Frame ==
  /\ codec.pc \in {"encoded", "encodeFailed", "decoded"} =>
       /\ codec.w.context = codec.w0.context
       /\ codec.w.Headers = codec.w0.Headers
       /\ codec.w.State = IF codec.cfg.UseDeduplication
                          THEN codec.w0.State \ {RlpEmptyString}
                          ELSE codec.w0.State
  /\ (codec.pc = "decoded" /\ ~codec.dec.ok) => codec.dec.wit = codec.recv

\* a witness with an empty entry was encoded with deduplication on and lost
\* it, and a damaged copy of the output failed to decode into a witness
\* that had state entries
C39_Witness ==
  /\ codec.pc = "decoded"
  /\ codec.cfg.UseDeduplication
  /\ RlpEmptyString \in codec.w0.State
  /\ codec.w # codec.w0
  /\ ~codec.dec.ok
  /\ codec.recv.State # {}

====
